---- MODULE Spec2Model ----
(***************************************************************************)
(* Retention analysis pipeline: the viewing-session producer                *)
(* (src/producer/producer.py) and the retention analytics API               *)
(* (src/api/main.py), modelled as state machines.                           *)
(*                                                                          *)
(* Floating-point quotients (percentages, averages) are kept as exact       *)
(* reduced fractions [num, den]; Python's None is the empty set and a       *)
(* present Optional value x is {x}.                                         *)
(***************************************************************************)
EXTENDS Integers, Sequences, FiniteSets, TLC

VARIABLES
    \* ---- analytics API (src/api/main.py) ----
    viewer_events_raw,     \* the ClickHouse table default.viewer_events_raw: rows in arrival order
    api_pc,                \* position of the request being served
    api_video_id,          \* path parameter video_id of the request being served
    total_unique_viewers,  \* local of get_retention_curve, set by its first query
    executed,              \* the queries the request being served has run (client.execute calls)
    response,              \* the response the handler returned
    \* ---- producer (src/producer/producer.py): main thread ----
    VIDEO_METADATA,        \* video id -> duration, drawn once at import
    pc,                    \* position of the main thread
    exception,             \* the exception that ended the main loop, or "none"
    sessions_left,         \* iterations left of the loop over range(concurrent_sessions)
    video_id,              \* locals of the session being simulated
    user_id,
    pattern,
    start_time,
    watch_duration,
    sec_offset,
    seeks_left,            \* positions not yet iterated by the skipper's loop
    pos,
    watch_time,
    burst_i,               \* i of the skipper's inner loop
    last_sent,             \* the last event the session in progress passed to producer.send
    last_segment,          \* the last VIEW_SEGMENT_* event among them
    \* ---- producer: the KafkaProducer and the broker ----
    broker,                \* "up" or "down"
    metadata,              \* the topic's metadata has been fetched
    queue,                 \* records accumulated, waiting to be sent (in sending order)
    inflight,              \* records sent and not answered yet (in sending order)
    log_in_order,          \* the topic holds each video's records in the order of their submission
    closed                 \* producer.close() has returned

api_vars == <<viewer_events_raw, api_pc, api_video_id, total_unique_viewers, executed, response>>

session_vars == <<video_id, user_id, pattern, start_time, watch_duration, sec_offset,
                  seeks_left, pos, watch_time, burst_i>>

sink_vars == <<broker, metadata, queue, inflight, log_in_order, closed>>

prod_vars == <<VIDEO_METADATA, pc, exception, sessions_left, session_vars,
               last_sent, last_segment, sink_vars>>

vars == <<api_vars, prod_vars>>

(***************************************************************************)
(* Domains of the rows of the table and of the request parameters.          *)
(***************************************************************************)
MaxRows == 3

RowVideos == {"v1", "v2"}
RowUsers == {"u1", "u2"}
RowSessions == {"s1", "s2"}
RowTypes == {"VIEW_SEGMENT_START", "VIEW_SEGMENT_END"}
RowTimes == {0, 1}

\* The rows that may arrive.  The SEGMENT_START rows of video v1 vary in every
\* column; the rows of another video or of another event type, which every
\* query on v1 has to leave out, vary in video, type, user and offset.
Rows == {r \in [video_id : RowVideos, user_id : RowUsers, session_id : RowSessions,
                event_type : RowTypes, video_time_sec : RowTimes] :
            \/ r.video_id = "v1" /\ r.event_type = "VIEW_SEGMENT_START"
            \/ r.session_id = "s1"}

\* the video ids requests ask about
RequestVideos == {"v1"}

\* threshold_percentage values a caller passes (10 is the default)
Thresholds == {-150, -5, 10, 50}

None == {}
Some(x) == {x}

(***************************************************************************)
(* Arithmetic helpers.                                                      *)
(***************************************************************************)
Abs(n) == IF n < 0 THEN -n ELSE n

RECURSIVE Gcd(_, _)
Gcd(a, b) == IF b = 0 THEN a ELSE Gcd(b, a % b)

\* the quotient n / d (d > 0) of a float division, as a reduced fraction
Quot(n, d) ==
    LET g == Gcd(Abs(n), d)
    IN  [num |-> n \div g, den |-> d \div g]

\* q > t for a fraction q and an integer t
QuotGreater(q, t) == q.num > t * q.den

RECURSIVE SortAsc(_)
\* ORDER BY <integer column> over distinct keys
SortAsc(S) ==
    IF S = {} THEN <<>>
    ELSE LET m == CHOOSE x \in S : \A y \in S : x <= y
         IN  <<m>> \o SortAsc(S \ {m})

RECURSIVE SumOver(_, _)
SumOver(f, S) ==
    IF S = {} THEN 0
    ELSE LET x == CHOOSE y \in S : TRUE
         IN  f[x] + SumOver(f, S \ {x})

(***************************************************************************)
(* The producer: population, random draws, events.                          *)
(*                                                                          *)
(* Values that are only printed (events_sent, total_events,                 *)
(* total_events_sent, batch_count) and values that are fresh on every      *)
(* draw (event_id, session_id, event_timestamp) are not part of the state. *)
(***************************************************************************)
MinDuration == 30
Retries == 5
MaxInFlight == 5

MaxConcurrent == 2
MaxBuffered == 2

VIDEO_IDS == {"v1"}
USER_IDS == {"u1"}
\* sampled from random.randint(30, 1800): the shortest video, and the shortest
\* one with five seek positions
Durations == {MinDuration, 50}
viewing_patterns == {"binge_watcher", "casual_viewer", "skipper", "completer"}

Min(a, b) == IF a <= b THEN a ELSE b
Max(a, b) == IF a >= b THEN a ELSE b

\* int(video_duration * 0.3), int(video_duration * 0.6), int(video_duration * 0.8):
\* for every duration in 30..1800 the float product truncates to this value
IntTenths(duration, tenths) == (duration * tenths) \div 10

\* random.randint(a, b): its ends and its middle, or only the lowest
RandIntSome(a, b) == IF a <= b THEN {a, (a + b) \div 2, b} ELSE {}
RandIntLow(a, b) == IF a <= b THEN {a} ELSE {}

\* the values drawn from random.randint(a, b) in a run of the given kind
RandInt(draw, a, b) == IF draw = "low" THEN RandIntLow(a, b) ELSE RandIntSome(a, b)

\* the dropout probability in thousandths; progress = video_time_sec / video_duration
calculate_dropout_probability(video_time_sec, video_duration) ==
    IF video_time_sec * 10 < video_duration THEN 150
    ELSE IF video_time_sec * 2 < video_duration THEN 50
    ELSE IF video_time_sec * 10 > video_duration * 8 THEN 120
    ELSE 80

\* random.random() < p can come out True / can come out False
CanBeBelow(p) == p > 0
CanBeNotBelow(p) == p < 1000

NoEvent == [event_type |-> "none", video_time_sec |-> -1]

generate_event(vid, uid, current_video_time_sec, event_type_choice) ==
    [video_id |-> vid,
     user_id |-> uid,
     event_type |-> event_type_choice,
     video_time_sec |-> current_video_time_sec,
     delta_viewers |-> IF event_type_choice = "VIEW_SEGMENT_START" THEN 1
                       ELSE IF event_type_choice = "VIEW_SEGMENT_END" THEN -1
                       ELSE 0]

(***************************************************************************)
(* The KafkaProducer: producer.send, the sender thread and the broker.      *)
(* A record is [key, video_id, seq, attempts, overtaken]: seq is its rank   *)
(* by submission among the records still buffered, overtaken says that a    *)
(* record of its video submitted after it is already in the topic.          *)
(***************************************************************************)
Buffered == Len(queue) + Len(inflight)

Drained == queue = <<>> /\ inflight = <<>>

\* send can accept a record: the topic's metadata is there or can be fetched,
\* and the buffer has room
CanSend == (metadata \/ broker = "up") /\ Buffered < MaxBuffered

\* send blocks for max_block_ms and raises KafkaTimeoutError
SendTimesOut == broker = "down" /\ (~metadata \/ Buffered >= MaxBuffered)

IsSegment(e) == e.event_type \in {"VIEW_SEGMENT_START", "VIEW_SEGMENT_END"}

\* producer.send(TOPIC_NAME, key=key, value=value)
Send(key, value) ==
    /\ CanSend
    /\ queue' = Append(queue, [key |-> key, video_id |-> value.video_id,
                               seq |-> Buffered + 1, attempts |-> 0, overtaken |-> FALSE])
    /\ metadata' = TRUE
    /\ last_sent' = value
    /\ last_segment' = IF IsSegment(value) THEN value ELSE last_segment
    /\ UNCHANGED <<broker, inflight, log_in_order, closed>>

\* the records of a sequence after record r has left the buffer
Without(rs, r) == [k \in DOMAIN rs |->
                      IF rs[k].seq > r.seq THEN [rs[k] EXCEPT !.seq = @ - 1] ELSE rs[k]]

\* ... and has been appended to the topic
Overtake(rs, r) == [k \in DOMAIN rs |->
                      IF rs[k].video_id = r.video_id /\ rs[k].seq < r.seq
                      THEN [rs[k] EXCEPT !.overtaken = TRUE] ELSE rs[k]]

\* the sender thread sends the first accumulated record
SenderSends ==
    /\ queue # <<>>
    /\ broker = "up"
    /\ Len(inflight) < MaxInFlight
    /\ inflight' = Append(inflight, Head(queue))
    /\ queue' = Tail(queue)
    /\ UNCHANGED <<broker, metadata, log_in_order, closed>>
    /\ UNCHANGED <<VIDEO_METADATA, pc, exception, sessions_left, session_vars, last_sent, last_segment>>
    /\ UNCHANGED api_vars

\* the broker appends the oldest request's record and acknowledges it (acks='all')
BrokerAcks ==
    /\ inflight # <<>>
    /\ broker = "up"
    /\ LET r == Head(inflight)
       IN  /\ log_in_order' = (log_in_order /\ ~r.overtaken)
           /\ inflight' = Without(Overtake(Tail(inflight), r), r)
           /\ queue' = Without(Overtake(queue, r), r)
    /\ UNCHANGED <<broker, metadata, closed>>
    /\ UNCHANGED <<VIDEO_METADATA, pc, exception, sessions_left, session_vars, last_sent, last_segment>>
    /\ UNCHANGED api_vars

\* RequestFails with a retry that is never the last one
RequestFailsRetriesOn ==
    /\ inflight # <<>>
    /\ LET r == Head(inflight)
       IN  /\ queue' = <<[r EXCEPT !.attempts = IF @ < Retries THEN @ + 1 ELSE @]>> \o queue
           /\ inflight' = Tail(inflight)
    /\ UNCHANGED <<broker, metadata, log_in_order, closed>>
    /\ UNCHANGED <<VIDEO_METADATA, pc, exception, sessions_left, session_vars, last_sent, last_segment>>
    /\ UNCHANGED api_vars

\* the oldest request fails with a retriable error: the record is put back at
\* the front of the accumulator (retries=5), or given up once the retries are spent
RequestFails ==
    /\ inflight # <<>>
    /\ LET r == Head(inflight)
       IN  IF r.attempts < Retries
           THEN /\ queue' = <<[r EXCEPT !.attempts = @ + 1]>> \o queue
                /\ inflight' = Tail(inflight)
           ELSE /\ queue' = Without(queue, r)
                /\ inflight' = Without(Tail(inflight), r)
    /\ UNCHANGED <<broker, metadata, log_in_order, closed>>
    /\ UNCHANGED <<VIDEO_METADATA, pc, exception, sessions_left, session_vars, last_sent, last_segment>>
    /\ UNCHANGED api_vars

\* a record that cannot be sent for request_timeout_ms expires in the accumulator
BatchExpires ==
    /\ queue # <<>>
    /\ broker = "down"
    /\ LET r == Head(queue)
       IN  /\ queue' = Without(Tail(queue), r)
           /\ inflight' = Without(inflight, r)
    /\ UNCHANGED <<broker, metadata, log_in_order, closed>>
    /\ UNCHANGED <<VIDEO_METADATA, pc, exception, sessions_left, session_vars, last_sent, last_segment>>
    /\ UNCHANGED api_vars

BrokerGoesDown ==
    /\ broker = "up"
    /\ broker' = "down"
    /\ UNCHANGED <<metadata, queue, inflight, log_in_order, closed>>
    /\ UNCHANGED <<VIDEO_METADATA, pc, exception, sessions_left, session_vars, last_sent, last_segment>>
    /\ UNCHANGED api_vars

BrokerComesUp ==
    /\ broker = "down"
    /\ broker' = "up"
    /\ UNCHANGED <<metadata, queue, inflight, log_in_order, closed>>
    /\ UNCHANGED <<VIDEO_METADATA, pc, exception, sessions_left, session_vars, last_sent, last_segment>>
    /\ UNCHANGED api_vars

(***************************************************************************)
(* The main thread.                                                         *)
(***************************************************************************)
\* positions inside the try block of the main loop
TryPcs == {"loop", "batch", "batch_done", "cv_loop", "cv_mid", "cv_paused", "cv_end",
           "sk_loop", "sk_burst", "sk_end"}

Duration == VIDEO_METADATA[video_id]

\* the loop condition of simulate_continuous_viewing, with its break
CvInLoop == sec_offset < watch_duration /\ start_time + sec_offset < Duration

\* SkInBurst without the break at the video's end
SkInBurstNoEnd == burst_i < watch_time

\* the loop condition of a skipper's burst, with its break
SkInBurst == burst_i < watch_time /\ pos + burst_i < Duration

\* the main thread is at a call of producer.send
AtSend ==
    \/ pc = "cv_loop" /\ CvInLoop
    \/ pc \in {"cv_mid", "cv_paused", "cv_end", "sk_end"}
    \/ pc = "sk_loop" /\ seeks_left > 0
    \/ pc = "sk_burst" /\ SkInBurst

NoSession ==
    /\ video_id' = "none" /\ user_id' = "none" /\ pattern' = "none"
    /\ start_time' = 0 /\ watch_duration' = 0 /\ sec_offset' = 0
    /\ seeks_left' = 0 /\ pos' = -1 /\ watch_time' = 0 /\ burst_i' = 0

\* an exception leaves the functions: their locals are gone
Unwind ==
    /\ NoSession
    /\ sessions_left' = 0
    /\ last_sent' = NoEvent
    /\ last_segment' = NoEvent

\* return events_sent, then time.sleep(random.uniform(0.5, 3)) in the batch loop
SessionReturns ==
    /\ pc' = "batch"
    /\ sessions_left' = sessions_left - 1
    /\ NoSession
    /\ UNCHANGED <<VIDEO_METADATA, exception, last_sent, last_segment, sink_vars>>
    /\ UNCHANGED api_vars

\* KafkaProducer(bootstrap_servers=REDPANDA_BROKER, ...) reaches the broker
Construct ==
    /\ pc = "construct"
    /\ broker = "up"
    /\ pc' = "startup"
    /\ UNCHANGED <<VIDEO_METADATA, exception, sessions_left, session_vars, last_sent,
                   last_segment, sink_vars>>
    /\ UNCHANGED api_vars

\* ConstructFails with the error swallowed: the script goes on
ConstructFailsGoesOn ==
    /\ pc = "construct"
    /\ broker = "down"
    /\ pc' = "startup"
    /\ exception' = "NoBrokersAvailable"
    /\ UNCHANGED <<VIDEO_METADATA, sessions_left, session_vars, last_sent, last_segment,
                   sink_vars>>
    /\ UNCHANGED api_vars

\* ... or raises NoBrokersAvailable, which ends the process
ConstructFails ==
    /\ pc = "construct"
    /\ broker = "down"
    /\ pc' = "crashed"
    /\ exception' = "NoBrokersAvailable"
    /\ UNCHANGED <<VIDEO_METADATA, sessions_left, session_vars, last_sent, last_segment,
                   sink_vars>>
    /\ UNCHANGED api_vars

\* time.sleep(5) and the prints before the try block
Startup ==
    /\ pc = "startup"
    /\ pc' = "loop"
    /\ UNCHANGED <<VIDEO_METADATA, exception, sessions_left, session_vars, last_sent,
                   last_segment, sink_vars>>
    /\ UNCHANGED api_vars

\* while True: simulate_multiple_concurrent_users() up to its loop
StartBatch(draw) ==
    /\ pc = "loop"
    /\ \E concurrent_sessions \in RandInt(draw, 1, MaxConcurrent) :
          sessions_left' = concurrent_sessions
    /\ pc' = "batch"
    /\ UNCHANGED <<VIDEO_METADATA, exception, session_vars, last_sent, last_segment, sink_vars>>
    /\ UNCHANGED api_vars

\* simulate_realistic_viewing_session up to the call of the pattern's simulation
StartSession(draw, patterns) ==
    /\ pc = "batch"
    /\ sessions_left > 0
    /\ \E vid \in VIDEO_IDS, uid \in USER_IDS, pat \in patterns :
        LET video_duration == VIDEO_METADATA[vid]
        IN  /\ video_id' = vid
            /\ user_id' = uid
            /\ pattern' = pat
            /\ sec_offset' = 0
            /\ pos' = -1 /\ watch_time' = 0 /\ burst_i' = 0
            /\ CASE pat = "casual_viewer" ->
                      /\ \E wd \in RandInt(draw, 5, IntTenths(video_duration, 3)) :
                            /\ watch_duration' = wd
                            /\ start_time' \in RandInt(draw, 0, Max(1, video_duration - wd))
                      /\ seeks_left' = 0
                      /\ pc' = "cv_loop"
                 [] pat = "binge_watcher" ->
                      /\ watch_duration' \in RandInt(draw, IntTenths(video_duration, 6), video_duration)
                      /\ start_time' = 0
                      /\ seeks_left' = 0
                      /\ pc' = "cv_loop"
                 [] pat = "completer" ->
                      /\ watch_duration' \in RandInt(draw, IntTenths(video_duration, 8), video_duration)
                      /\ start_time' = 0
                      /\ seeks_left' = 0
                      /\ pc' = "cv_loop"
                 [] pat = "skipper" ->
                      /\ watch_duration' = 0
                      /\ start_time' = 0
                      /\ seeks_left' = Min(5, video_duration \div 10)
                      /\ pc' = "sk_loop"
    /\ last_sent' = NoEvent
    /\ last_segment' = NoEvent
    /\ UNCHANGED <<VIDEO_METADATA, exception, sessions_left, sink_vars>>
    /\ UNCHANGED api_vars

\* simulate_continuous_viewing: the loop is over, or its break at the video's end
CvReturn ==
    /\ pc = "cv_loop"
    /\ ~CvInLoop
    /\ SessionReturns

\* random.random() < dropout_prob: break
CvDropout ==
    /\ pc = "cv_loop"
    /\ CvInLoop
    /\ CanBeBelow(calculate_dropout_probability(start_time + sec_offset, Duration))
    /\ SessionReturns

CvSegmentStart ==
    /\ pc = "cv_loop"
    /\ CvInLoop
    /\ CanBeNotBelow(calculate_dropout_probability(start_time + sec_offset, Duration))
    /\ Send(video_id, generate_event(video_id, user_id, start_time + sec_offset,
                                     "VIEW_SEGMENT_START"))
    /\ pc' = "cv_mid"
    /\ UNCHANGED <<VIDEO_METADATA, exception, sessions_left, session_vars>>
    /\ UNCHANGED api_vars

\* random.random() < 0.03: the PAUSE event
CvPause ==
    /\ pc = "cv_mid"
    /\ Send(video_id, generate_event(video_id, user_id, start_time + sec_offset, "PAUSE"))
    /\ pc' = "cv_paused"
    /\ UNCHANGED <<VIDEO_METADATA, exception, sessions_left, session_vars>>
    /\ UNCHANGED api_vars

\* CvPlay with the PLAY event sent at the next offset
CvPlayNextOffset ==
    /\ pc = "cv_paused"
    /\ Send(video_id, generate_event(video_id, user_id, start_time + sec_offset + 1, "PLAY"))
    /\ pc' = "cv_end"
    /\ UNCHANGED <<VIDEO_METADATA, exception, sessions_left, session_vars>>
    /\ UNCHANGED api_vars

\* time.sleep(random.uniform(1, 8)), then the PLAY event
CvPlay ==
    /\ pc = "cv_paused"
    /\ Send(video_id, generate_event(video_id, user_id, start_time + sec_offset, "PLAY"))
    /\ pc' = "cv_end"
    /\ UNCHANGED <<VIDEO_METADATA, exception, sessions_left, session_vars>>
    /\ UNCHANGED api_vars

\* CvSegmentEnd with the VIEW_SEGMENT_END event sent after the offset has moved on
CvSegmentEndNextOffset ==
    /\ pc \in {"cv_mid", "cv_end"}
    /\ Send(video_id, generate_event(video_id, user_id, start_time + sec_offset + 1,
                                     "VIEW_SEGMENT_END"))
    /\ sec_offset' = sec_offset + 1
    /\ pc' = "cv_loop"
    /\ UNCHANGED <<VIDEO_METADATA, exception, sessions_left, video_id, user_id, pattern,
                   start_time, watch_duration, seeks_left, pos, watch_time, burst_i>>
    /\ UNCHANGED api_vars

\* time.sleep(random.uniform(0.8, 1.2)), then the VIEW_SEGMENT_END event
CvSegmentEnd ==
    /\ pc \in {"cv_mid", "cv_end"}
    /\ Send(video_id, generate_event(video_id, user_id, start_time + sec_offset,
                                     "VIEW_SEGMENT_END"))
    /\ sec_offset' = sec_offset + 1
    /\ pc' = "cv_loop"
    /\ UNCHANGED <<VIDEO_METADATA, exception, sessions_left, video_id, user_id, pattern,
                   start_time, watch_duration, seeks_left, pos, watch_time, burst_i>>
    /\ UNCHANGED api_vars

\* SkSeek with the positions in the order in which they were sampled
SkSeekUnsorted(draw) ==
    /\ pc = "sk_loop"
    /\ seeks_left > 0
    /\ \E p \in RandInt(draw, 0, Duration - 1) :
          /\ pos' = p
          /\ Send(video_id, generate_event(video_id, user_id, p, "SEEK"))
    /\ watch_time' \in RandInt(draw, 3, 15)
    /\ burst_i' = 0
    /\ seeks_left' = seeks_left - 1
    /\ pc' = "sk_burst"
    /\ UNCHANGED <<VIDEO_METADATA, exception, sessions_left, video_id, user_id, pattern,
                   start_time, watch_duration, sec_offset>>
    /\ UNCHANGED api_vars

\* simulate_skipping_session: the next of the sorted sampled positions (the
\* sample is drawn position by position, each leaving room for those after it),
\* its SEEK event and the burst length
SkSeek(draw) ==
    /\ pc = "sk_loop"
    /\ seeks_left > 0
    /\ \E p \in RandInt(draw, pos + 1, Duration - seeks_left) :
          /\ pos' = p
          /\ Send(video_id, generate_event(video_id, user_id, p, "SEEK"))
    /\ watch_time' \in RandInt(draw, 3, 15)
    /\ burst_i' = 0
    /\ seeks_left' = seeks_left - 1
    /\ pc' = "sk_burst"
    /\ UNCHANGED <<VIDEO_METADATA, exception, sessions_left, video_id, user_id, pattern,
                   start_time, watch_duration, sec_offset>>
    /\ UNCHANGED api_vars

SkReturn ==
    /\ pc = "sk_loop"
    /\ seeks_left = 0
    /\ SessionReturns

SkSegmentStart ==
    /\ pc = "sk_burst"
    /\ SkInBurst
    /\ Send(video_id, generate_event(video_id, user_id, pos + burst_i, "VIEW_SEGMENT_START"))
    /\ pc' = "sk_end"
    /\ UNCHANGED <<VIDEO_METADATA, exception, sessions_left, session_vars>>
    /\ UNCHANGED api_vars

\* the burst's range is over, or its break at the video's end
SkBurstOver ==
    /\ pc = "sk_burst"
    /\ ~SkInBurst
    /\ pc' = "sk_loop"
    /\ UNCHANGED <<VIDEO_METADATA, exception, sessions_left, session_vars, last_sent,
                   last_segment, sink_vars>>
    /\ UNCHANGED api_vars

\* time.sleep(0.1), the VIEW_SEGMENT_END event, then random.random() < 0.2: break
SkSegmentEnd ==
    /\ pc = "sk_end"
    /\ Send(video_id, generate_event(video_id, user_id, pos + burst_i, "VIEW_SEGMENT_END"))
    /\ burst_i' = burst_i + 1
    /\ pc' \in {"sk_loop", "sk_burst"}
    /\ UNCHANGED <<VIDEO_METADATA, exception, sessions_left, video_id, user_id, pattern,
                   start_time, watch_duration, sec_offset, seeks_left, pos, watch_time>>
    /\ UNCHANGED api_vars

\* Flush without the wait for the buffered records
FlushNoWait ==
    /\ pc = "batch"
    /\ sessions_left = 0
    /\ pc' = "batch_done"
    /\ UNCHANGED <<VIDEO_METADATA, exception, sessions_left, session_vars, last_sent,
                   last_segment, sink_vars>>
    /\ UNCHANGED api_vars

\* producer.flush() returns once no record is buffered; "Batch completed" is printed
Flush ==
    /\ pc = "batch"
    /\ sessions_left = 0
    /\ Drained
    /\ pc' = "batch_done"
    /\ UNCHANGED <<VIDEO_METADATA, exception, sessions_left, session_vars, last_sent,
                   last_segment, sink_vars>>
    /\ UNCHANGED api_vars

\* back in the main loop: the statistics and time.sleep(random.uniform(5, 15))
BatchReturns ==
    /\ pc = "batch_done"
    /\ pc' = "loop"
    /\ UNCHANGED <<VIDEO_METADATA, exception, sessions_left, session_vars, last_sent,
                   last_segment, sink_vars>>
    /\ UNCHANGED api_vars

\* KeyboardInterrupt in the try block: except KeyboardInterrupt, then finally
Interrupt ==
    /\ pc \in TryPcs
    /\ exception' = "KeyboardInterrupt"
    /\ pc' = "finally"
    /\ Unwind
    /\ UNCHANGED <<VIDEO_METADATA, sink_vars>>
    /\ UNCHANGED api_vars

\* producer.send raises KafkaTimeoutError; no except clause matches: finally
SendRaises ==
    /\ AtSend
    /\ SendTimesOut
    /\ exception' = "KafkaTimeoutError"
    /\ pc' = "finally"
    /\ Unwind
    /\ UNCHANGED <<VIDEO_METADATA, sink_vars>>
    /\ UNCHANGED api_vars

\* Close without the wait for the buffered records
CloseNoDrain ==
    /\ pc = "finally"
    /\ closed' = TRUE
    /\ pc' = "exited"
    /\ UNCHANGED <<broker, metadata, queue, inflight, log_in_order>>
    /\ UNCHANGED <<VIDEO_METADATA, exception, sessions_left, session_vars, last_sent,
                   last_segment>>
    /\ UNCHANGED api_vars

\* finally: producer.close() waits for the buffered records, then closes
Close ==
    /\ pc = "finally"
    /\ Drained
    /\ closed' = TRUE
    /\ pc' = "exited"
    /\ UNCHANGED <<broker, metadata, queue, inflight, log_in_order>>
    /\ UNCHANGED <<VIDEO_METADATA, exception, sessions_left, session_vars, last_sent,
                   last_segment>>
    /\ UNCHANGED api_vars

InitProducer ==
    /\ VIDEO_METADATA \in [VIDEO_IDS -> Durations]
    /\ pc = "construct"
    /\ exception = "none"
    /\ sessions_left = 0
    /\ video_id = "none" /\ user_id = "none" /\ pattern = "none"
    /\ start_time = 0 /\ watch_duration = 0 /\ sec_offset = 0
    /\ seeks_left = 0 /\ pos = -1 /\ watch_time = 0 /\ burst_i = 0
    /\ last_sent = NoEvent
    /\ last_segment = NoEvent
    /\ broker \in {"up", "down"}
    /\ metadata = FALSE
    /\ queue = <<>>
    /\ inflight = <<>>
    /\ log_in_order = TRUE
    /\ closed = FALSE

\* the producer process has not been started
ProducerNotStarted ==
    /\ InitProducer
    /\ VIDEO_METADATA = [v \in VIDEO_IDS |-> MinDuration]
    /\ broker = "up"

\* the main thread, with a given random.randint
MainThread(draw, patterns) ==
    \/ Construct
    \/ ConstructFails
    \/ Startup
    \/ StartBatch(draw)
    \/ StartSession(draw, patterns)
    \/ CvReturn
    \/ CvDropout
    \/ CvSegmentStart
    \/ CvPause
    \/ CvPlay
    \/ CvSegmentEnd
    \/ SkSeek(draw)
    \/ SkReturn
    \/ SkSegmentStart
    \/ SkBurstOver
    \/ SkSegmentEnd
    \/ Flush
    \/ BatchReturns
    \/ Interrupt
    \/ Close

(***************************************************************************)
(* The SQL queries, as functions of the table T.                            *)
(***************************************************************************)
\* WHERE video_id = %(video_id)s AND event_type = 'VIEW_SEGMENT_START'
StartRows(T, v) ==
    {i \in DOMAIN T : T[i].video_id = v /\ T[i].event_type = "VIEW_SEGMENT_START"}

\* QueryTotalViewers with COUNT(user_id) in place of COUNT(DISTINCT user_id)
QueryTotalViewersCountAll(T, v) == Cardinality(StartRows(T, v))

\* SELECT COUNT(DISTINCT user_id) ... (query_total_viewers)
QueryTotalViewers(T, v) == Cardinality({T[i].user_id : i \in StartRows(T, v)})

\* QueryCurve with COUNT(*) in place of COUNT(DISTINCT user_id)
QueryCurveCountAll(T, v) ==
    LET rows == StartRows(T, v)
        keys == SortAsc({T[i].video_time_sec : i \in rows})
    IN  [k \in 1..Len(keys) |->
            [video_time_sec |-> keys[k],
             current_viewers |-> Cardinality({j \in rows : T[j].video_time_sec = keys[k]})]]

\* QueryCurve without ORDER BY: the groups in the order in which their first
\* rows arrived
QueryCurveArrivalOrder(T, v) ==
    LET rows == StartRows(T, v)
        firsts == SortAsc({i \in rows : \A j \in rows :
                              T[j].video_time_sec = T[i].video_time_sec => i <= j})
        viewers(t) == Cardinality({T[i].user_id : i \in {j \in rows : T[j].video_time_sec = t}})
    IN  [k \in 1..Len(firsts) |->
            [video_time_sec |-> T[firsts[k]].video_time_sec,
             current_viewers |-> viewers(T[firsts[k]].video_time_sec)]]

\* SELECT video_time_sec, COUNT(DISTINCT user_id) ... GROUP BY video_time_sec
\* ORDER BY video_time_sec (query_curve, and the RetentionCurve CTE)
QueryCurve(T, v) ==
    LET rows == StartRows(T, v)
        keys == SortAsc({T[i].video_time_sec : i \in rows})
        viewers(t) == Cardinality({T[i].user_id : i \in {j \in rows : T[j].video_time_sec = t}})
    IN  [k \in 1..Len(keys) |->
            [video_time_sec |-> keys[k], current_viewers |-> viewers(keys[k])]]

\* sorts rows by video_time_sec (ORDER BY video_time_sec of the outer SELECT)
RECURSIVE OrderByTime(_)
OrderByTime(rs) ==
    IF rs = <<>> THEN <<>>
    ELSE LET k == CHOOSE i \in DOMAIN rs :
                      \A j \in DOMAIN rs : rs[i].video_time_sec <= rs[j].video_time_sec
             rest == [j \in 1..(Len(rs) - 1) |-> IF j < k THEN rs[j] ELSE rs[j + 1]]
         IN  <<rs[k]>> \o OrderByTime(rest)

\* the RetentionWithLag CTE: lagInFrame(current_viewers, 1, 0) OVER (ORDER BY video_time_sec)
\* over the curve rows WHERE current_viewers > 0
RetentionWithLag(T, v) ==
    LET c == SelectSeq(QueryCurve(T, v), LAMBDA r : r.current_viewers > 0)
    IN  [k \in 1..Len(c) |->
            [video_time_sec |-> c[k].video_time_sec,
             current_viewers |-> c[k].current_viewers,
             previous_viewers |-> IF k = 1 THEN 0 ELSE c[k - 1].current_viewers]]

\* DropoffSelected with >= in place of >
DropoffSelectedNonStrict(r, threshold) ==
    /\ r.previous_viewers > 0
    /\ ~QuotGreater(Quot((r.current_viewers - r.previous_viewers) * 100, r.previous_viewers),
                    -threshold)

\* WHERE previous_viewers > 0 AND drop_off_percentage > %(threshold)s
DropoffSelected(r, threshold) ==
    /\ r.previous_viewers > 0
    /\ QuotGreater(Quot((r.previous_viewers - r.current_viewers) * 100, r.previous_viewers),
                   threshold)

\* the query of get_significant_dropoffs
QueryDropoffs(T, v, threshold) ==
    LET kept == SelectSeq(RetentionWithLag(T, v), LAMBDA r : DropoffSelected(r, threshold))
    IN  OrderByTime(
            [k \in 1..Len(kept) |->
                [video_time_sec |-> kept[k].video_time_sec,
                 current_viewers |-> kept[k].current_viewers,
                 previous_viewers |-> kept[k].previous_viewers,
                 drop_off_count |-> kept[k].previous_viewers - kept[k].current_viewers,
                 drop_off_percentage |->
                     Quot((kept[k].previous_viewers - kept[k].current_viewers) * 100,
                          kept[k].previous_viewers)]])

\* GROUP BY video_id, session_id, user_id of the SessionDurations CTE
SessionGroups(T, v) == {<<T[i].session_id, T[i].user_id>> : i \in StartRows(T, v)}

\* WatchedDuration with COUNT(*) in place of COUNT(DISTINCT video_time_sec)
WatchedDurationCountAll(T, v, g) ==
    Cardinality({j \in StartRows(T, v) : <<T[j].session_id, T[j].user_id>> = g})

\* COUNT(DISTINCT video_time_sec) AS watched_duration_sec of one group
WatchedDuration(T, v, g) ==
    Cardinality({T[i].video_time_sec :
                    i \in {j \in StartRows(T, v) : <<T[j].session_id, T[j].user_id>> = g}})

\* the query of get_engagement_summary: no row, or the one row of GROUP BY video_id
QueryEngagement(T, v) ==
    LET groups == SessionGroups(T, v)
        watched == [g \in groups |-> WatchedDuration(T, v, g)]
    IN  IF groups = {} THEN <<>>
        ELSE << [video_id |-> v,
                 average_watch_time_sec |-> Quot(SumOver(watched, groups), Cardinality(groups)),
                 unique_viewers |-> Cardinality({g[2] : g \in groups})] >>

\* LIMIT 20 of the query of list_videos
VideoLimit == 20

\* the rows of SELECT video_id, COUNT(DISTINCT user_id), MIN(video_time_sec),
\* MAX(video_time_sec), COUNT(*) ... WHERE event_type = 'VIEW_SEGMENT_START'
\* GROUP BY video_id
VideoGroups(T) ==
    LET starts(v) == StartRows(T, v)
        times(v) == {T[i].video_time_sec : i \in starts(v)}
    IN  {[video_id |-> v,
          unique_viewers |-> Cardinality({T[i].user_id : i \in starts(v)}),
          min_time |-> CHOOSE t \in times(v) : \A x \in times(v) : t <= x,
          max_time |-> CHOOSE t \in times(v) : \A x \in times(v) : t >= x,
          total_events |-> Cardinality(starts(v))] :
            v \in {T[i].video_id : i \in {j \in DOMAIN T : T[j].event_type = "VIEW_SEGMENT_START"}}}

\* ORDER BY unique_viewers DESC LIMIT 20: every result the server can give;
\* rows with equal unique_viewers come in an order the server does not fix
QueryVideos(T) ==
    LET G == VideoGroups(T)
        n == Cardinality(G)
        sorted == {s \in [1..n -> G] :
                      /\ \A i, j \in 1..n : i # j => s[i] # s[j]
                      /\ \A i, j \in 1..n : i < j => s[i].unique_viewers >= s[j].unique_viewers}
    IN  {SubSeq(s, 1, Min(n, VideoLimit)) : s \in sorted}

(***************************************************************************)
(* The request handlers.                                                    *)
(***************************************************************************)
NoResponse == [op |-> "none"]

\* a row arrives in the table while no request is being served
InsertRow(e) ==
    /\ UNCHANGED prod_vars
    /\ api_pc = "idle"
    /\ Len(viewer_events_raw) < MaxRows
    /\ viewer_events_raw' = Append(viewer_events_raw, e)
    /\ UNCHANGED <<api_pc, api_video_id, total_unique_viewers, executed, response>>

\* RetentionCurveTotal without the early return for a video with no viewers
RetentionCurveTotalNoEarlyReturn(v) ==
    /\ UNCHANGED prod_vars
    /\ api_pc = "idle"
    /\ api_video_id' = v
    /\ total_unique_viewers' = QueryTotalViewers(viewer_events_raw, v)
    /\ executed' = {"query_total_viewers"}
    /\ response' = NoResponse
    /\ api_pc' = "rc_curve"
    /\ UNCHANGED viewer_events_raw

\* get_retention_curve up to its first return: query_total_viewers and the
\* early return when there are no viewers
RetentionCurveTotal(v) ==
    /\ UNCHANGED prod_vars
    /\ api_pc = "idle"
    /\ api_video_id' = v
    /\ total_unique_viewers' = QueryTotalViewers(viewer_events_raw, v)
    /\ executed' = {"query_total_viewers"}
    /\ IF total_unique_viewers' = 0
       THEN /\ response' = [op |-> "retention_curve", status |-> 200, video_id |-> v,
                            data_points |-> <<>>, total_unique_viewers |-> Some(0)]
            /\ api_pc' = "responded"
       ELSE /\ response' = NoResponse
            /\ api_pc' = "rc_curve"
    /\ UNCHANGED viewer_events_raw

\* one RetentionDataPoint of get_retention_curve
RetentionDataPoint(row, total) ==
    [video_time_sec |-> row.video_time_sec,
     current_viewers |-> Some(row.current_viewers),
     retention_percentage |->
         Some(IF total > 0 THEN Quot(row.current_viewers * 100, total) ELSE Quot(0, 1))]

\* get_retention_curve from query_curve to its return
RetentionCurveCurve ==
    /\ UNCHANGED prod_vars
    /\ api_pc = "rc_curve"
    /\ LET data == QueryCurve(viewer_events_raw, api_video_id)
       IN  response' = [op |-> "retention_curve", status |-> 200, video_id |-> api_video_id,
                        data_points |->
                            [k \in 1..Len(data) |-> RetentionDataPoint(data[k], total_unique_viewers)],
                        total_unique_viewers |-> Some(total_unique_viewers)]
    /\ executed' = executed \cup {"query_curve"}
    /\ api_pc' = "responded"
    /\ UNCHANGED <<viewer_events_raw, api_video_id, total_unique_viewers>>

\* get_significant_dropoffs
SignificantDropoffs(v, threshold) ==
    /\ UNCHANGED prod_vars
    /\ api_pc = "idle"
    /\ api_video_id' = v
    /\ executed' = {"query_dropoffs"}
    /\ response' = [op |-> "significant_dropoffs", status |-> 200, video_id |-> v,
                    threshold_percentage |-> threshold,
                    drop_offs |-> QueryDropoffs(viewer_events_raw, v, threshold)]
    /\ api_pc' = "responded"
    /\ UNCHANGED <<viewer_events_raw, total_unique_viewers>>

\* get_engagement_summary
EngagementSummary(v) ==
    /\ UNCHANGED prod_vars
    /\ api_pc = "idle"
    /\ api_video_id' = v
    /\ executed' = {"query_engagement"}
    /\ LET result == QueryEngagement(viewer_events_raw, v)
       IN  response' =
             IF result = <<>>
             THEN [op |-> "engagement_summary", status |-> 200, video_id |-> v,
                   average_watch_time_sec |-> None, unique_viewers |-> None]
             ELSE [op |-> "engagement_summary", status |-> 200, video_id |-> result[1].video_id,
                   average_watch_time_sec |->
                       IF result[1].average_watch_time_sec.num # 0
                       THEN Some(result[1].average_watch_time_sec) ELSE None,
                   unique_viewers |->
                       IF result[1].unique_viewers # 0
                       THEN Some(result[1].unique_viewers) ELSE None]
    /\ api_pc' = "responded"
    /\ UNCHANGED <<viewer_events_raw, total_unique_viewers>>

\* list_videos
ListVideos ==
    /\ UNCHANGED prod_vars
    /\ api_pc = "idle"
    /\ executed' = {"query_videos"}
    /\ \E data \in QueryVideos(viewer_events_raw) :
          response' = [op |-> "list_videos", status |-> 200,
                       videos |-> [k \in 1..Len(data) |->
                                     [video_id |-> data[k].video_id,
                                      unique_viewers |-> data[k].unique_viewers,
                                      duration_seconds |-> data[k].max_time - data[k].min_time + 1,
                                      total_events |-> data[k].total_events]]]
    /\ api_pc' = "responded"
    /\ UNCHANGED <<viewer_events_raw, api_video_id, total_unique_viewers>>

\* what client.execute can raise: the server cannot be reached (NetworkError),
\* or it answers with an error (ServerException)
ExecuteErrors == {"NetworkError", "ServerException"}

\* except Exception as e: raise HTTPException(status_code=..., detail=f"...: {str(e)}")
\* and finally: client.disconnect()
Raise(op, status_code, detail, e) ==
    /\ response' = [op |-> op, status |-> status_code, detail |-> <<detail, e>>]
    /\ api_pc' = "responded"
    /\ UNCHANGED viewer_events_raw
    /\ UNCHANGED prod_vars

\* list_videos when client.execute raises
ListVideosFails(e) ==
    /\ api_pc = "idle"
    /\ executed' = {}
    /\ Raise("list_videos", 500, "Error querying videos", e)
    /\ UNCHANGED <<api_video_id, total_unique_viewers>>

\* get_retention_curve when client.execute raises at query_total_viewers
RetentionCurveTotalFails(v, e) ==
    /\ api_pc = "idle"
    /\ api_video_id' = v
    /\ executed' = {}
    /\ Raise("retention_curve", 500, "Error querying ClickHouse", e)
    /\ UNCHANGED total_unique_viewers

\* get_retention_curve when client.execute raises at query_curve
RetentionCurveCurveFails(e) ==
    /\ api_pc = "rc_curve"
    /\ Raise("retention_curve", 500, "Error querying ClickHouse", e)
    /\ UNCHANGED <<api_video_id, total_unique_viewers, executed>>

\* get_significant_dropoffs when client.execute raises
SignificantDropoffsFails(v, e) ==
    /\ api_pc = "idle"
    /\ api_video_id' = v
    /\ executed' = {}
    /\ Raise("significant_dropoffs", 500, "Error querying ClickHouse for dropoffs", e)
    /\ UNCHANGED total_unique_viewers

\* get_engagement_summary when client.execute raises
EngagementSummaryFails(v, e) ==
    /\ api_pc = "idle"
    /\ api_video_id' = v
    /\ executed' = {}
    /\ Raise("engagement_summary", 500, "Error querying ClickHouse for engagement summary", e)
    /\ UNCHANGED total_unique_viewers

\* health_check: SELECT 1 succeeds
HealthCheck ==
    /\ UNCHANGED prod_vars
    /\ api_pc = "idle"
    /\ executed' = {"select_1"}
    /\ response' = [op |-> "health_check", status |-> 200]
    /\ api_pc' = "responded"
    /\ UNCHANGED <<viewer_events_raw, api_video_id, total_unique_viewers>>

\* health_check when client.execute raises
HealthCheckFails(e) ==
    /\ api_pc = "idle"
    /\ executed' = {}
    /\ Raise("health_check", 503, "ClickHouse connection failed", e)
    /\ UNCHANGED <<api_video_id, total_unique_viewers>>

\* the caller has received the response; the handler's locals are gone
ResponseSent ==
    /\ UNCHANGED prod_vars
    /\ api_pc = "responded"
    /\ api_pc' = "idle"
    /\ api_video_id' = "none"
    /\ total_unique_viewers' = 0
    /\ executed' = {}
    /\ response' = NoResponse
    /\ UNCHANGED viewer_events_raw

InitApi ==
    /\ viewer_events_raw = <<>>
    /\ api_pc = "idle"
    /\ api_video_id = "none"
    /\ total_unique_viewers = 0
    /\ executed = {}
    /\ response = NoResponse

NextApi ==
    \/ \E e \in Rows : InsertRow(e)
    \/ \E v \in RequestVideos : RetentionCurveTotal(v)
    \/ RetentionCurveCurve
    \/ \E v \in RequestVideos, t \in Thresholds : SignificantDropoffs(v, t)
    \/ \E v \in RequestVideos : EngagementSummary(v)
    \/ ResponseSent

InitApiOnly == InitApi /\ ProducerNotStarted

SpecApi == InitApiOnly /\ [][NextApi]_vars

\* The producer with the ends and the middle of each random.randint, a broker
\* that stays as it is and a sender thread that delivers in order.
NextSession ==
    \/ MainThread("some", viewing_patterns)
    \/ SenderSends
    \/ BrokerAcks

Init == InitApi /\ InitProducer

SpecSession == Init /\ [][NextSession]_vars

\* The producer with the lowest value of each random.randint, two of the
\* patterns, the shortest video and a broker that
\* fails: it goes down and comes up, requests fail and are retried, sends time out.
NextSink ==
    \/ MainThread("low", {"casual_viewer", "skipper"})
    \/ SendRaises
    \/ SenderSends
    \/ BrokerAcks
    \/ RequestFails
    \/ BatchExpires
    \/ BrokerGoesDown
    \/ BrokerComesUp

InitSink == Init /\ VIDEO_METADATA = [v \in VIDEO_IDS |-> MinDuration]

SpecSink == InitSink /\ [][NextSink]_vars

\* The rows that arrive in SpecCalls: the SEGMENT_START rows of session s1 of
\* both videos, and the SEGMENT_END rows of user u1 in it
CallRows == {r \in Rows : r.session_id = "s1"
                           /\ (r.event_type = "VIEW_SEGMENT_START" \/ r.user_id = "u1")}

\* one user has a SEGMENT_START row at each of the offsets 0..59 of video v1
ContinuousLog ==
    [k \in 1..60 |-> [video_id |-> "v1", user_id |-> "u1", session_id |-> "s1",
                      event_type |-> "VIEW_SEGMENT_START", video_time_sec |-> k - 1]]

\* The API with all of its endpoints and a ClickHouse server whose queries can
\* fail, on a table that is empty at first or holds ContinuousLog.
InitCalls ==
    /\ ProducerNotStarted
    /\ viewer_events_raw \in {<<>>, ContinuousLog}
    /\ api_pc = "idle"
    /\ api_video_id = "none"
    /\ total_unique_viewers = 0
    /\ executed = {}
    /\ response = NoResponse

NextCalls ==
    \/ \E e \in CallRows : InsertRow(e)
    \/ ListVideos
    \/ \E v \in RequestVideos : RetentionCurveTotal(v)
    \/ RetentionCurveCurve
    \/ \E v \in RequestVideos, t \in Thresholds : SignificantDropoffs(v, t)
    \/ \E v \in RequestVideos : EngagementSummary(v)
    \/ HealthCheck
    \/ \E e \in ExecuteErrors : ListVideosFails(e)
    \/ \E v \in RequestVideos, e \in ExecuteErrors : RetentionCurveTotalFails(v, e)
    \/ \E e \in ExecuteErrors : RetentionCurveCurveFails(e)
    \/ \E v \in RequestVideos, e \in ExecuteErrors : SignificantDropoffsFails(v, e)
    \/ \E v \in RequestVideos, e \in ExecuteErrors : EngagementSummaryFails(v, e)
    \/ \E e \in ExecuteErrors : HealthCheckFails(e)
    \/ ResponseSent

SpecCalls == InitCalls /\ [][NextCalls]_vars

(***************************************************************************)
(* Claims about the analytics API, checked under SpecApi.                   *)
(***************************************************************************)
\* what the claims say of a table, stated on its rows directly
StartOffsets(T, v) ==
    {t \in RowTimes : \E i \in DOMAIN T :
        T[i].video_id = v /\ T[i].event_type = "VIEW_SEGMENT_START" /\ T[i].video_time_sec = t}

ViewersAt(T, v, t) ==
    Cardinality({u \in RowUsers : \E i \in DOMAIN T :
        /\ T[i].video_id = v /\ T[i].event_type = "VIEW_SEGMENT_START"
        /\ T[i].video_time_sec = t /\ T[i].user_id = u})

Viewers(T, v) ==
    {u \in RowUsers : \E i \in DOMAIN T :
        T[i].video_id = v /\ T[i].event_type = "VIEW_SEGMENT_START" /\ T[i].user_id = u}

Ascending(pts) ==
    \A k \in 1..(Len(pts) - 1) : pts[k].video_time_sec < pts[k + 1].video_time_sec

Responded(op) == api_pc = "responded" /\ response.op = op

\* C1: for a video with at least one SEGMENT_START row, retentionCurve returns
\* exactly one point per distinct offset that has a SEGMENT_START row of the
\* video, in strictly ascending offset order; a point's count is the number of
\* distinct users with a SEGMENT_START at its offset, its percentage is
\* count * 100 / totalUniqueViewers, and totalUniqueViewers is the number of
\* distinct users over all SEGMENT_START rows of the video.
C1_RetentionCurveExact ==
    (Responded("retention_curve") /\ Viewers(viewer_events_raw, response.video_id) # {}) =>
        LET T == viewer_events_raw
            v == response.video_id
            pts == response.data_points
            total == Cardinality(Viewers(T, v))
        IN  /\ response.total_unique_viewers = Some(total)
            /\ Len(pts) = Cardinality(StartOffsets(T, v))
            /\ {pts[k].video_time_sec : k \in DOMAIN pts} = StartOffsets(T, v)
            /\ Ascending(pts)
            /\ \A k \in DOMAIN pts :
                 LET n == ViewersAt(T, v, pts[k].video_time_sec)
                 IN  /\ pts[k].current_viewers = Some(n)
                     /\ \E q \in pts[k].retention_percentage :
                            /\ pts[k].retention_percentage = Some(q)
                            /\ q.den > 0
                            /\ q.num * total = n * 100 * q.den

\* a curve of two points, the second with half of the two viewers
C1_Witness ==
    /\ Responded("retention_curve")
    /\ Len(response.data_points) = 2
    /\ response.total_unique_viewers = Some(2)
    /\ response.data_points[1].current_viewers = Some(2)
    /\ response.data_points[2].retention_percentage = Some([num |-> 50, den |-> 1])
    /\ Len(viewer_events_raw) = MaxRows

\* the offset that precedes t on the curve of v, if any: {} or {p}
PreviousOffset(T, v, t) ==
    {p \in StartOffsets(T, v) :
        p < t /\ \A x \in StartOffsets(T, v) : x < t => x <= p}

StartPairs(T, v) ==
    {g \in RowSessions \X RowUsers : \E i \in DOMAIN T :
        /\ T[i].video_id = v /\ T[i].event_type = "VIEW_SEGMENT_START"
        /\ T[i].session_id = g[1] /\ T[i].user_id = g[2]}

StartTriples(T, v) ==
    {g \in RowSessions \X RowUsers \X RowTimes : \E i \in DOMAIN T :
        /\ T[i].video_id = v /\ T[i].event_type = "VIEW_SEGMENT_START"
        /\ T[i].session_id = g[1] /\ T[i].user_id = g[2] /\ T[i].video_time_sec = g[3]}

\* C3: engagementSummary returns as average watch time the mean, over the
\* distinct (session id, user id) pairs with a SEGMENT_START row of the video,
\* of the pair's number of distinct offsets, and as unique viewers the number
\* of distinct users; with no SEGMENT_START row both are absent, not zero.
C3_EngagementSummary ==
    Responded("engagement_summary") =>
        LET T == viewer_events_raw
            v == api_video_id
            pairs == StartPairs(T, v)
        IN  IF pairs = {}
            THEN /\ response.average_watch_time_sec = None
                 /\ response.unique_viewers = None
            ELSE /\ response.unique_viewers = Some(Cardinality(Viewers(T, v)))
                 /\ \E q \in response.average_watch_time_sec :
                        /\ response.average_watch_time_sec = Some(q)
                        /\ q.den > 0
                        /\ q.num * Cardinality(pairs)
                              = Cardinality(StartTriples(T, v)) * q.den

\* two sessions of one user, of two offsets and of one: mean 3/2, one viewer
C3_Witness ==
    /\ Responded("engagement_summary")
    /\ response.average_watch_time_sec = Some([num |-> 3, den |-> 2])
    /\ response.unique_viewers = Some(1)

\* C4: for a video with no SEGMENT_START row, retentionCurve returns an empty
\* sequence with totalUniqueViewers = 0 as a normal result, and the curve
\* query, where percentages are computed, is not run.
C4_NoViewersEmptyCurve ==
    (Responded("retention_curve") /\ StartOffsets(viewer_events_raw, response.video_id) = {}) =>
        /\ response.status = 200
        /\ response.data_points = <<>>
        /\ response.total_unique_viewers = Some(0)
        /\ executed = {"query_total_viewers"}

\* the video has rows, none of them a SEGMENT_START, and the curve is asked for
C4_Witness ==
    /\ Responded("retention_curve")
    /\ StartOffsets(viewer_events_raw, response.video_id) = {}
    /\ \E i \in DOMAIN viewer_events_raw :
          viewer_events_raw[i].video_id = response.video_id
    /\ Len(viewer_events_raw) = MaxRows

C6_LoopLeftOnlyByStopSignal ==
    pc \in {"finally", "exited"} => exception = "KeyboardInterrupt"

\* C7: every event is sent with its own video_id as the key, and the log holds
\* the events of one video in the order of their submission, also when a send
\* is retried after a failure.
C7_KeyedAndInSubmissionOrder ==
    /\ \A k \in DOMAIN queue : queue[k].key = queue[k].video_id
    /\ \A k \in DOMAIN inflight : inflight[k].key = inflight[k].video_id
    /\ log_in_order

\* C8: every event a session emits, of any pattern and kind, has a
\* video_time_sec t with 0 <= t < the duration of the session's video.
C8_OffsetInsideVideo ==
    last_sent # NoEvent =>
        /\ last_sent.event_type \in {"VIEW_SEGMENT_START", "VIEW_SEGMENT_END",
                                     "PAUSE", "PLAY", "SEEK"}
        /\ 0 <= last_sent.video_time_sec
        /\ last_sent.video_time_sec < VIDEO_METADATA[last_sent.video_id]

\* a skipper's burst is cut by the end of the video, after the segment at the
\* video's last second
C8_Witness ==
    /\ pattern = "skipper"
    /\ pc = "sk_burst"
    /\ burst_i < watch_time
    /\ pos + burst_i = Duration
    /\ last_sent.event_type = "VIEW_SEGMENT_END"
    /\ last_sent.video_time_sec = Duration - 1

\* a step of the main thread that submits an event
Sent == Len(queue') = Len(queue) + 1

\* C9: within a session the SEGMENT_START and SEGMENT_END events alternate,
\* beginning with a SEGMENT_START; every SEGMENT_END has the offset of the
\* SEGMENT_START just before it; and a session that returns (is not cut by an
\* exception) has sent the SEGMENT_END of its last SEGMENT_START.
C9_SegmentsAlternate ==
    /\ [][Sent =>
            /\ last_sent'.event_type = "VIEW_SEGMENT_START" =>
                  last_segment.event_type \in {"none", "VIEW_SEGMENT_END"}
            /\ last_sent'.event_type = "VIEW_SEGMENT_END" =>
                  /\ last_segment.event_type = "VIEW_SEGMENT_START"
                  /\ last_segment.video_time_sec = last_sent'.video_time_sec]_vars
    /\ [](pc \in {"loop", "batch", "batch_done"} =>
            last_segment.event_type \in {"none", "VIEW_SEGMENT_END"})

\* a session of several segments has returned, its last event a SEGMENT_END
C9_Witness ==
    /\ pc = "batch"
    /\ last_segment.event_type = "VIEW_SEGMENT_END"
    /\ last_sent = last_segment
    /\ last_segment.video_time_sec > 0

\* C10: after a KeyboardInterrupt has reached the outer loop no batch and no
\* session is started; the connection is released only once every submitted
\* event has left the buffer, and no event is submitted after the release.
C10_GracefulStop ==
    /\ exception = "KeyboardInterrupt" =>
          /\ pc \in {"finally", "exited"}
          /\ sessions_left = 0
          /\ pattern = "none"
    /\ closed => pc = "exited" /\ Drained
    /\ pc = "exited" => closed

\* the producer is closed after an interrupt, events having been submitted, with
\* the broker down at the end
C10_Witness ==
    /\ closed
    /\ exception = "KeyboardInterrupt"
    /\ metadata
    /\ broker = "down"

(***************************************************************************)
(* Claims about repeated calls, failures and list_videos, under SpecCalls.  *)
(***************************************************************************)
\* the part of a successful response that the queries determine
Returned ==
    CASE response.op = "list_videos" -> response.videos
      [] response.op = "retention_curve" -> <<response.data_points, response.total_unique_viewers>>
      [] response.op = "significant_dropoffs" -> response.drop_offs
      [] response.op = "engagement_summary" ->
             <<response.average_watch_time_sec, response.unique_viewers>>
      [] OTHER -> response.status

\* what a call of the same operation with the same arguments can return on
\* the table T
ReturnableOn(T) ==
    LET v == api_video_id
    IN  CASE response.op = "list_videos" ->
                 {[k \in 1..Len(data) |->
                     [video_id |-> data[k].video_id,
                      unique_viewers |-> data[k].unique_viewers,
                      duration_seconds |-> data[k].max_time - data[k].min_time + 1,
                      total_events |-> data[k].total_events]] : data \in QueryVideos(T)}
          [] response.op = "retention_curve" ->
                 LET total == QueryTotalViewers(T, v)
                     data == IF total = 0 THEN <<>> ELSE QueryCurve(T, v)
                 IN  {<<[k \in 1..Len(data) |-> RetentionDataPoint(data[k], total)],
                        Some(total)>>}
          [] response.op = "significant_dropoffs" ->
                 {QueryDropoffs(T, v, response.threshold_percentage)}
          [] response.op = "engagement_summary" ->
                 LET result == QueryEngagement(T, v)
                 IN  {IF result = <<>> THEN <<None, None>>
                      ELSE <<IF result[1].average_watch_time_sec.num # 0
                             THEN Some(result[1].average_watch_time_sec) ELSE None,
                             IF result[1].unique_viewers # 0
                             THEN Some(result[1].unique_viewers) ELSE None>>}
          [] OTHER -> {response.status}

\* ... on the table as it is
Returnable == ReturnableOn(viewer_events_raw)

\* C11: a second call of the same aggregation operation with the same
\* arguments on the unchanged log returns the result of the first, whatever
\* the server does, and between calls the handlers keep no state.
C11_SecondCallReturnsTheSame ==
    /\ (api_pc = "responded" /\ response.status = 200) => Returnable = {Returned}
    /\ api_pc = "idle" =>
          /\ api_video_id = "none" /\ total_unique_viewers = 0
          /\ executed = {} /\ response = NoResponse

\* the logs that hold the rows of T with two of them exchanged in the order of
\* arrival; a permutation is a sequence of such exchanges, and each log on the
\* way is a log the claim is checked for
Arrangements(T) ==
    {[k \in DOMAIN T |-> IF k = x[1] THEN T[x[2]] ELSE IF k = x[2] THEN T[x[1]] ELSE T[k]] :
        x \in {y \in (DOMAIN T) \X (DOMAIN T) : y[1] < y[2]}}

\* C12: the results of retentionCurve, dropoffs and engagementSummary do not
\* depend on the order in which the events arrived: on a log that holds the
\* same rows in another order the operation returns the same result.
C12_ArrivalOrderIrrelevant ==
    (api_pc = "responded" /\ response.status = 200
        /\ response.op \in {"retention_curve", "significant_dropoffs", "engagement_summary"}) =>
        \A P \in Arrangements(viewer_events_raw) : ReturnableOn(P) = {Returned}

\* a drop is reported on a table of rows that arrived with the later offset first
C12_Witness ==
    /\ api_pc = "responded"
    /\ response.op = "significant_dropoffs"
    /\ response.status = 200
    /\ response.drop_offs # <<>>
    /\ Len(viewer_events_raw) = MaxRows
    /\ viewer_events_raw[1].video_time_sec > viewer_events_raw[MaxRows].video_time_sec
    /\ viewer_events_raw[1].video_id = response.video_id
    /\ viewer_events_raw[1].event_type = "VIEW_SEGMENT_START"

\* C13: on the log in which one user has a SEGMENT_START at every offset
\* 0..59 and nothing later, dropoffs with threshold 10 returns exactly one
\* point, at offset 59, with drop percentage 100.
C13_DropAtLastWatchedSecond ==
    (api_pc = "responded" /\ response.op = "significant_dropoffs" /\ response.status = 200
        /\ response.threshold_percentage = 10 /\ viewer_events_raw = ContinuousLog) =>
        /\ Len(response.drop_offs) = 1
        /\ response.drop_offs[1].video_time_sec = 59
        /\ response.drop_offs[1].drop_off_percentage = [num |-> 100, den |-> 1]

\* C14: dropoffs with threshold -5 includes every point of the curve that has
\* more viewers than the point just before it, with its negative drop
\* percentage.
C14_IncreaseIncludedBelowZero ==
    (api_pc = "responded" /\ response.op = "significant_dropoffs" /\ response.status = 200
        /\ response.threshold_percentage = -5) =>
        LET T == viewer_events_raw
            v == response.video_id
        IN  \A t \in StartOffsets(T, v) : \A p \in PreviousOffset(T, v, t) :
                ViewersAt(T, v, t) > ViewersAt(T, v, p) =>
                    \E k \in DOMAIN response.drop_offs :
                        /\ response.drop_offs[k].video_time_sec = t
                        /\ response.drop_offs[k].drop_off_percentage.num < 0

\* C15: when the store cannot be reached for a read of retentionCurve,
\* dropoffs, engagementSummary or listVideos, the caller gets a failure of the
\* service-unavailable kind (503, as health_check reports it), which other
\* query failures do not get, and never a successful result.
C15_UnreachableIsServiceUnavailable ==
    (api_pc = "responded"
        /\ response.op \in {"retention_curve", "significant_dropoffs",
                            "engagement_summary", "list_videos"}
        /\ response.status # 200) =>
        /\ response.detail[2] = "NetworkError" => response.status = 503
        /\ response.detail[2] # "NetworkError" => response.status # 503

\* the rows of video v in T, of any event type, and their offsets
RowsOf(T, v) == {i \in DOMAIN T : T[i].video_id = v}
OffsetsOf(T, v) == {T[i].video_time_sec : i \in RowsOf(T, v)}

\* C16: listVideos returns at most 20 videos in descending order of their
\* distinct-viewer count (distinct users among the SEGMENT_START events), each
\* with duration = largest observed offset - smallest observed offset + 1 and
\* with the video's total event count.
C16_ListVideos ==
    (api_pc = "responded" /\ response.op = "list_videos" /\ response.status = 200) =>
        LET T == viewer_events_raw
            out == response.videos
        IN  /\ Len(out) <= VideoLimit
            /\ \A i, j \in DOMAIN out : i < j => out[i].unique_viewers >= out[j].unique_viewers
            /\ \A k \in DOMAIN out :
                 LET v == out[k].video_id
                 IN  /\ out[k].unique_viewers = Cardinality(Viewers(T, v))
                     /\ \E lo, hi \in OffsetsOf(T, v) :
                            /\ \A t \in OffsetsOf(T, v) : lo <= t /\ t <= hi
                            /\ out[k].duration_seconds = hi - lo + 1
                     /\ out[k].total_events = Cardinality(RowsOf(T, v))

(***************************************************************************)
(* Further claims about the producer.                                       *)
(***************************************************************************)
\* C17: if the sink cannot be reached when the producer process starts, the
\* process stops at startup and stays stopped: no batch is started, no session
\* is simulated and no event is sent.
C17_StartupFailureIsFatal ==
    /\ [][(pc = "construct" /\ broker = "down" /\ pc' # pc) => pc' = "crashed"]_vars
    /\ [][pc = "crashed" => pc' = "crashed"]_vars
    /\ [](pc = "crashed" =>
            /\ exception = "NoBrokersAvailable"
            /\ sessions_left = 0 /\ pattern = "none"
            /\ last_sent = NoEvent /\ ~metadata /\ Drained /\ ~closed)

\* the process has stopped at startup, and the broker has come up since
C17_Witness ==
    /\ pc = "crashed"
    /\ exception = "NoBrokersAvailable"
    /\ broker = "up"

\* the piecewise function as the claim has it, in thousandths: 0.12 from
\* p = 0.80 on, p = 0.80 included
ClaimedDropoutProbability(video_time_sec, video_duration) ==
    IF video_time_sec * 10 < video_duration THEN 150
    ELSE IF video_time_sec * 2 < video_duration THEN 50
    ELSE IF video_time_sec * 10 >= video_duration * 8 THEN 120
    ELSE 80

\* C18: for every offset in [0, duration) calculate_dropout_probability
\* returns 0.15 when p < 0.10, 0.05 when 0.10 <= p < 0.50, 0.12 when p >= 0.80
\* (p = 0.80 included) and 0.08 when 0.50 <= p < 0.80, with p = time/duration.
C18_DropoutProbabilityPiecewise ==
    (pc = "cv_loop" /\ CvInLoop) =>
        calculate_dropout_probability(start_time + sec_offset, Duration)
            = ClaimedDropoutProbability(start_time + sec_offset, Duration)

\* C19: in a continuous session each second's events are sent in the order
\* SEGMENT_START, optionally PAUSE and then PLAY, SEGMENT_END, all at the
\* second's offset; the first offset is the session's start offset (0 for
\* binge_watcher and completer) and each next one is larger by exactly 1; and
\* the step at which the dropout draw succeeds sends nothing and ends the
\* session.
C19_ContinuousSecondByOrder ==
    /\ [][(Sent /\ pattern \in {"casual_viewer", "binge_watcher", "completer"}) =>
            LET e == last_sent'
                same == last_sent # NoEvent /\ last_sent.video_time_sec = e.video_time_sec
            IN  /\ e.video_time_sec = start_time + sec_offset
                /\ pattern \in {"binge_watcher", "completer"} => start_time = 0
                /\ CASE e.event_type = "VIEW_SEGMENT_START" ->
                            IF last_sent = NoEvent
                            THEN e.video_time_sec = start_time
                            ELSE /\ last_sent.event_type = "VIEW_SEGMENT_END"
                                 /\ e.video_time_sec = last_sent.video_time_sec + 1
                     [] e.event_type = "PAUSE" ->
                            same /\ last_sent.event_type = "VIEW_SEGMENT_START"
                     [] e.event_type = "PLAY" ->
                            same /\ last_sent.event_type = "PAUSE"
                     [] e.event_type = "VIEW_SEGMENT_END" ->
                            same /\ last_sent.event_type \in {"VIEW_SEGMENT_START", "PLAY"}
                     [] OTHER -> FALSE]_vars
    /\ [][(pc = "cv_loop" /\ pc' # "cv_loop" /\ pc' # "cv_mid") =>
            /\ ~Sent
            /\ pattern' = "none"
            /\ pc' \in {"batch", "finally"}]_vars

\* a casual viewer who started inside the video has paused in a later second
\* and the PLAY event has been sent
C19_Witness ==
    /\ pattern = "casual_viewer"
    /\ pc = "cv_end"
    /\ last_sent.event_type = "PLAY"
    /\ start_time > 0
    /\ sec_offset > 0
    /\ last_sent.video_time_sec = start_time + sec_offset

\* C20: a skipper session sends at most 5 SEEK events, at strictly ascending
\* (so pairwise distinct) offsets within [0, duration); a SEEK comes first or
\* after the SEGMENT_END that completes the last pair of the burst before it,
\* and the pairs of a burst follow its SEEK at offsets from the SEEK's on.
C20_SkipperSeeks ==
    /\ [][(Sent /\ pattern = "skipper") =>
            LET e == last_sent'
            IN  CASE e.event_type = "SEEK" ->
                        /\ e.video_time_sec > pos
                        /\ 0 <= e.video_time_sec /\ e.video_time_sec < Duration
                        /\ last_sent = NoEvent \/ last_sent.event_type = "VIEW_SEGMENT_END"
                        /\ seeks_left' = seeks_left - 1
                        /\ pos' = e.video_time_sec
                  [] e.event_type = "VIEW_SEGMENT_START" ->
                        /\ last_sent.event_type \in {"SEEK", "VIEW_SEGMENT_END"}
                        /\ e.video_time_sec = pos + burst_i
                        /\ UNCHANGED <<pos, seeks_left>>
                  [] e.event_type = "VIEW_SEGMENT_END" ->
                        /\ last_sent.event_type = "VIEW_SEGMENT_START"
                        /\ e.video_time_sec = last_sent.video_time_sec
                        /\ UNCHANGED <<pos, seeks_left>>
                  [] OTHER -> FALSE]_vars
    /\ [](pattern = "skipper" => seeks_left \in 0..5)

\* the fifth SEEK of a skipper in a 50-second video, at the last second
C20_Witness ==
    /\ pattern = "skipper"
    /\ Duration = 50
    /\ seeks_left = 0
    /\ last_sent.event_type = "SEEK"
    /\ last_sent.video_time_sec = 49

\* C21: the burst after a SEEK at pos sends its pairs at pos, pos + 1, ...
\* inside the video, and a burst has no more pairs than a length drawn from
\* [3, 15): never more than 14.
C21_BurstAtMostFourteenPairs ==
    pattern = "skipper" =>
        /\ burst_i <= 14
        /\ (pc = "sk_end" \/ (pc \in {"sk_burst", "sk_loop"} /\ IsSegment(last_sent))) =>
              /\ pos <= last_sent.video_time_sec
              /\ last_sent.video_time_sec < Duration

(***************************************************************************)
(* The batch barrier under a sink that never acknowledges: BrokerAcks is    *)
(* not a step of this specification. The main thread runs casual viewers    *)
(* with the lowest draws; the sender thread and the broker's failures are   *)
(* those of SpecSink. The sender thread runs for as long as the producer is *)
(* open: a record in the accumulator is sent when the broker is reachable   *)
(* and expires after request_timeout_ms when it is not, a request that      *)
(* stays unanswered fails after request_timeout_ms, and flush() wakes up    *)
(* when the last future completes.                                          *)
(***************************************************************************)
NextFlush ==
    \/ Construct
    \/ ConstructFails
    \/ Startup
    \/ StartBatch("low")
    \/ StartSession("low", {"casual_viewer"})
    \/ CvReturn
    \/ CvDropout
    \/ CvSegmentStart
    \/ CvPause
    \/ CvPlay
    \/ CvSegmentEnd
    \/ Flush
    \/ BatchReturns
    \/ Interrupt
    \/ Close
    \/ SendRaises
    \/ SenderSends
    \/ RequestFails
    \/ BatchExpires
    \/ BrokerGoesDown
    \/ BrokerComesUp

SenderFairness ==
    /\ WF_vars(SenderSends \/ BatchExpires)
    /\ WF_vars(RequestFails)

SpecFlush == InitSink /\ [][NextFlush]_vars /\ SenderFairness /\ WF_vars(Flush)

AtFlush == pc = "batch" /\ sessions_left = 0

\* the number of times the record has been sent to the broker, the send in
\* flight included
Attempts(r) == r.attempts + 1

\* C22: flush() always eventually returns, unless the stop signal ends the
\* wait: each record is retried at most 5 times (retries=5) after its first
\* send and then counts as failed, so the barrier ends also when the broker
\* never acknowledges.
C22_FlushReturns ==
    /\ [](\A k \in DOMAIN inflight : Attempts(inflight[k]) <= Retries + 1)
    /\ [](\A k \in DOMAIN queue : queue[k].attempts <= Retries)
    /\ AtFlush ~> (pc = "batch_done" \/ exception = "KeyboardInterrupt")

\* flush() has returned although the broker was down at that moment and the
\* records of the batch's session had been submitted
C22_Witness ==
    /\ pc = "batch_done"
    /\ broker = "down"
    /\ metadata
    /\ IsSegment(last_sent)

\* C22 as stated: no record is sent to the broker more than 5 times.
C22_AtMostFiveAttempts ==
    \A k \in DOMAIN inflight : Attempts(inflight[k]) <= Retries

(***************************************************************************)
(* get_retention_curve while the table grows: the producer and the API are  *)
(* separate processes, and the handler reads the table with two queries in  *)
(* two calls of execute, so a row can arrive between them.                  *)
(***************************************************************************)
\* an event reaches viewer_events_raw after query_total_viewers and before
\* query_curve of the get_retention_curve call being served
InsertRowBetweenQueries(e) ==
    /\ UNCHANGED prod_vars
    /\ api_pc = "rc_curve"
    /\ Len(viewer_events_raw) < MaxRows
    /\ viewer_events_raw' = Append(viewer_events_raw, e)
    /\ UNCHANGED <<api_pc, api_video_id, total_unique_viewers, executed, response>>

NextConcurrent ==
    \/ \E e \in CallRows : InsertRow(e)
    \/ \E e \in CallRows : InsertRowBetweenQueries(e)
    \/ \E v \in RequestVideos : RetentionCurveTotal(v)
    \/ RetentionCurveCurve
    \/ ResponseSent

SpecConcurrent == InitApiOnly /\ [][NextConcurrent]_vars

\* C23: in every retentionCurve response each point's count is at most the
\* reported total_unique_viewers and each percentage lies in (0, 100], also
\* when rows are appended between the handler's two reads.
C23_CountsWithinTotal ==
    (Responded("retention_curve") /\ response.status = 200) =>
        \A k \in DOMAIN response.data_points :
            LET pt == response.data_points[k]
            IN  /\ \A n \in pt.current_viewers, total \in response.total_unique_viewers :
                      n <= total
                /\ \A q \in pt.retention_percentage :
                      /\ q.num > 0
                      /\ q.num <= 100 * q.den

\* the logs obtained from T by a duplicate delivery: one row once more, one
\* row twice more, two rows once more each, or every row once more
Repeats(T) ==
    {Append(T, T[i]) : i \in DOMAIN T}
        \cup {T \o <<T[i], T[j]>> : i, j \in DOMAIN T}
        \cup {T \o T}

\* C24: a duplicate delivery of events does not change what retentionCurve
\* (with its totalUniqueViewers), dropoffs and engagementSummary return: each
\* returns on the log with repeated events what it returns on the log.
C24_DuplicatesChangeNothing ==
    (api_pc = "responded" /\ response.status = 200
        /\ response.op \in {"retention_curve", "significant_dropoffs", "engagement_summary"}) =>
        \A L \in Repeats(viewer_events_raw) : ReturnableOn(L) = {Returned}

\* a full log that already holds a duplicate of a SEGMENT_START of the video,
\* and a curve with a point and a positive total
C24_Witness ==
    /\ Responded("retention_curve")
    /\ response.status = 200
    /\ response.data_points # <<>>
    /\ Len(viewer_events_raw) = MaxRows
    /\ viewer_events_raw[1] = viewer_events_raw[2]
    /\ viewer_events_raw[1].video_id = response.video_id
    /\ viewer_events_raw[1].event_type = "VIEW_SEGMENT_START"

====
